---- MODULE Spec2Model ----
(***************************************************************************)
(* Colored Title Bar: the colour pipeline of color-generator.ts, the       *)
(* settings wrapper of title-bar-manager.ts and the lifecycle of           *)
(* extension.ts.                                                           *)
(*                                                                         *)
(* Numbers.  TLC integers are 32 bits wide, the program's numbers are      *)
(* IEEE doubles.  The model carries                                        *)
(*   - a hue in whole degrees,                                             *)
(*   - a saturation or lightness in millionths of a percent (Pct(40) is    *)
(*     40 %),                                                              *)
(*   - a hash float in ten-thousandths (the numerator of hash % 10000),    *)
(*   - a 32-bit hash as its two 16-bit halves [hi, lo],                    *)
(*   - a luminance in units of 10^-13 and a contrast ratio as the fraction *)
(*     [num, den] of two such numbers, both as limb sequences,             *)
(* and computes products that exceed 32 bits on little-endian sequences of *)
(* base-10000 limbs, so that every rounding is the rounding of the exact   *)
(* value.  Math.pow and Math.sin are tabulated.                            *)
(*                                                                         *)
(* Strings are sequences of one-character strings.                         *)
(***************************************************************************)
EXTENDS Integers, Sequences, FiniteSets, TLC

VARIABLES
    folders,        \* vscode.workspace.workspaceFolders: undefined or a list of URI strings
    themeKind,      \* vscode.window.activeColorTheme.kind
    colorOnStartup, \* the setting coloredTitleBar.colorOnStartup
    config,         \* workbench.colorCustomizations at workspace scope: undefined or a map
    saved,          \* workspaceState[STATE_KEY]: undefined or a TitleBarColors
    actPc,          \* position of activate(): "start", "done"
    startup,        \* what the startup logic of activate() did
    calls,          \* the applyColors / resetColors calls in flight, per slot
    lastCall,       \* the latest resetColors or successful applyColors that returned
    pin,            \* pure-function harness: the call under evaluation
    pout,           \* pure-function harness: its result
    seen            \* seed-loop harness: the results collected so far

vars == <<folders, themeKind, colorOnStartup, config, saved, actPc,
          startup, calls, lastCall, pin, pout, seen>>

-----------------------------------------------------------------------------
(* Bounds of the model. *)

\* Math.random() is drawn from the grid {0, 1/RandSteps, .., (RandSteps-1)/RandSteps}.
RandSteps == 1

\* Seed strings of the pure-function harness: all strings over SeedAlphabet
\* up to this length (plus the strings the test-suite uses).
MaxSeedLen == 2

\* Command handlers that may be in flight at once.
MaxCommands == 1

\* The quick-pick offers the first MaxPick presets of HUE_PRESETS.
MaxPick == 2

-----------------------------------------------------------------------------
(* Strings and characters. *)

LowerCase == <<"a","b","c","d","e","f","g","h","i","j","k","l","m",
               "n","o","p","q","r","s","t","u","v","w","x","y","z">>
UpperCase == <<"A","B","C","D","E","F","G","H","I","J","K","L","M",
               "N","O","P","Q","R","S","T","U","V","W","X","Y","Z">>
DecDigits == <<"0","1","2","3","4","5","6","7","8","9">>

IndexOf(seq, c) == CHOOSE i \in 1..Len(seq) : seq[i] = c
Has(seq, c) == \E i \in 1..Len(seq) : seq[i] = c

\* String.prototype.charCodeAt for the characters the model's strings use.
charCode(c) ==
    IF Has(LowerCase, c) THEN 96 + IndexOf(LowerCase, c)
    ELSE IF Has(UpperCase, c) THEN 64 + IndexOf(UpperCase, c)
    ELSE IF Has(DecDigits, c) THEN 47 + IndexOf(DecDigits, c)
    ELSE CASE c = "/" -> 47
           [] c = ":" -> 58
           [] c = "-" -> 45
           [] c = "#" -> 35
           [] c = "." -> 46

RECURSIVE Repeat(_, _)
Repeat(c, n) == IF n <= 0 THEN <<>> ELSE <<c>> \o Repeat(c, n - 1)

\* String.prototype.padStart(n, c) with a one-character pad string.
padStart(str, n, c) == Repeat(c, n - Len(str)) \o str

\* String.prototype.slice(from, to) for 0 <= from <= to (0-based, to exclusive).
slice(str, from, to) ==
    LET a == IF from > Len(str) THEN Len(str) ELSE from
        b == IF to > Len(str) THEN Len(str) ELSE to
    IN  IF b <= a THEN <<>> ELSE SubSeq(str, a + 1, b)

-----------------------------------------------------------------------------
(* Exact arithmetic on limb sequences (little-endian, base 10000).         *)
(* A "wide" sequence has limbs of any sign and size below 2^31; Normalize  *)
(* brings every limb but the last into 0..9999 and leaves the sign in the  *)
(* last one.                                                               *)

Radix == 100 * 100

RECURSIVE Limbs(_)
Limbs(n) == IF n < Radix THEN <<n>> ELSE <<n % Radix>> \o Limbs(n \div Radix)

Limb(a, i) == IF i >= 1 /\ i <= Len(a) THEN a[i] ELSE 0

RECURSIVE ConvSum(_, _, _, _)
ConvSum(a, b, k, i) ==
    IF i > Len(a) THEN 0 ELSE a[i] * Limb(b, k + 1 - i) + ConvSum(a, b, k, i + 1)

\* a * b, wide.
WideMul(a, b) == <<>> \o [k \in 1..(Len(a) + Len(b) - 1) |-> ConvSum(a, b, k, 1)]

\* p * a + q * b, wide.
WideLin(p, a, q, b) ==
    LET n == IF Len(a) > Len(b) THEN Len(a) ELSE Len(b)
    IN  <<>> \o [k \in 1..n |-> p * Limb(a, k) + q * Limb(b, k)]

\* a * Radix^k.
ShiftLimbs(a, k) == Repeat(0, k) \o a

RECURSIVE Normalize(_)
Normalize(w) ==
    IF Len(w) <= 1 THEN w
    ELSE <<w[1] % Radix>>
         \o Normalize(<<w[2] + (w[1] \div Radix)>> \o SubSeq(w, 3, Len(w)))

\* Sign of a wide number: that of the last limb once normalized.
WideNonNeg(w) == LET n == Normalize(w) IN n[Len(n)] >= 0

\* floor(w / Radix^k) as an integer (for results that fit 32 bits).
RECURSIVE HighValue(_, _)
HighValue(n, k) ==
    IF Len(n) <= k THEN 0
    ELSE n[k + 1] + Radix * HighValue(n, k + 1)

WideFloorShift(w, k) ==
    HighValue(Normalize(WideLin(1, w, 0, Repeat(0, k + 1))), k)

Abs(n) == IF n < 0 THEN -n ELSE n
Sgn(n) == IF n < 0 THEN -1 ELSE 1

-----------------------------------------------------------------------------
(* Utilities (color-generator.ts). *)

\* n percent in the model's unit (millionths of a percent).
Pct(n) == n * 1000000

clamp(value, min, max) ==
    LET hi == IF value > min THEN value ELSE min     \* Math.max(value, min)
    IN  IF hi < max THEN hi ELSE max                 \* Math.min(.., max)

\* The JavaScript remainder a % b (sign of the dividend), b > 0.
JsRem(a, b) == IF a >= 0 THEN a % b ELSE -((-a) % b)

\* A 32-bit value as its halves; a negative n (a start value the loop has
\* not yet wrapped) keeps its sign in hi.
U32(n) == [hi |-> n \div 65536, lo |-> n % 65536]

\* hash << 5: the low 32 bits of hash * 32 (ToInt32 of it; its sign does
\* not survive the >>> 0 that follows).
ShiftLeft5(hash) ==
    LET lo == hash.lo * 32
    IN  [hi |-> (hash.hi * 32 + (lo \div 65536)) % 65536, lo |-> lo % 65536]

\* (hash << 5) + code, wrapped: the hash itself is not added.
DjbStepNoSelf(hash, code) ==
    LET sh == ShiftLeft5(hash)
        lo == sh.lo + code
    IN  [hi |-> (sh.hi + (lo \div 65536)) % 65536, lo |-> lo % 65536]

\* ((hash << 5) + hash + code) >>> 0
DjbStep(hash, code) ==
    LET sh == ShiftLeft5(hash)
        lo == sh.lo + hash.lo + code
    IN  [hi |-> (sh.hi + hash.hi + (lo \div 65536)) % 65536, lo |-> lo % 65536]

\* The for-loop with the bound i < input.length - 1.
RECURSIVE DjbLoopShort(_, _, _)
DjbLoopShort(hash, input, i) ==
    IF ~(hash.hi \in Int /\ i < Len(input)) THEN hash
    ELSE DjbLoopShort(DjbStep(hash, charCode(input[i])), input, i + 1)

\* The for-loop of both hash functions, from position i on.
RECURSIVE DjbLoop(_, _, _)
DjbLoop(hash, input, i) ==
    IF ~(hash.hi \in Int /\ i <= Len(input)) THEN hash
    ELSE DjbLoop(DjbStep(hash, charCode(input[i])), input, i + 1)

\* hash % m for 0 < m <= 10000; the remainder has the sign of hash.
U32Mod(hash, m) ==
    IF hash.hi < 0 THEN JsRem(hash.hi * 65536 + hash.lo, m)
    ELSE ((hash.hi % m) * (65536 % m) + hash.lo) % m

hashStringToHue(input) == U32Mod(DjbLoop(U32(5381), input, 1), 360)

\* (hash % 10000) / 10000, in ten-thousandths.
\* The start value without the seed offset.
hashStringToFloatNoSeed(input, seed) == U32Mod(DjbLoop(U32(5381), input, 1), 10000)

hashStringToFloat(input, seed) == U32Mod(DjbLoop(U32(5381 + seed), input, 1), 10000)

-----------------------------------------------------------------------------
(* Color-space conversions. *)

\* Math.round((comp + m) * 255) for comp = c * k / 60, k in 0..60, where
\* c = (1 - |2 ln - 1|) * sn and m = ln - c / 2, with ln = l / 10^8,
\* sn = s / 10^8:
\*   (comp + m) * 255 = 255 l / 10^8 + 17 (k - 30) t s / (4 * 10^16),
\*   t = 10^8 - |2 l - 10^8|,
\* and Math.round(v) = floor(v + 1/2)
\*   = floor((1020 * 10^8 * l + 17 (k - 30) t s + 2 * 10^16) / 10^16 / 4).
\* Math.floor in place of Math.round: the half is not added.
ChannelTruncated(k, s, l) ==
    LET t    == 100000000 - Abs(2 * l - 100000000)
        ts   == Normalize(WideMul(Limbs(Abs(t)), Limbs(Abs(s))) \o <<0>>)
        lpart == WideLin(1020 * Sgn(l), ShiftLimbs(Limbs(Abs(l)), 2),
                         0, ShiftLimbs(<<1>>, 4))
        num  == WideLin(1, lpart, 17 * (k - 30) * Sgn(t) * Sgn(s), ts)
    IN  WideFloorShift(num, 4) \div 4

Channel(k, s, l) ==
    LET t    == 100000000 - Abs(2 * l - 100000000)
        ts   == Normalize(WideMul(Limbs(Abs(t)), Limbs(Abs(s))) \o <<0>>)
        lpart == WideLin(1020 * Sgn(l), ShiftLimbs(Limbs(Abs(l)), 2),
                         2, ShiftLimbs(<<1>>, 4))
        num  == WideLin(1, lpart, 17 * (k - 30) * Sgn(t) * Sgn(s), ts)
    IN  WideFloorShift(num, 4) \div 4

\* m = ln in place of m = ln - c / 2.
hslToRgbNoOffset(hsl) ==
    LET hn == JsRem(JsRem(hsl.h, 360) + 360, 360)
        xk == 60 - Abs((hn % 120) - 60)
        c  == 60
        sel == IF hn < 60 THEN <<c, xk, 0>>
               ELSE IF hn < 120 THEN <<xk, c, 0>>
               ELSE IF hn < 180 THEN <<0, c, xk>>
               ELSE IF hn < 240 THEN <<0, xk, c>>
               ELSE IF hn < 300 THEN <<xk, 0, c>>
               ELSE <<c, 0, xk>>
    IN  [r |-> Channel(sel[1] + 30, hsl.s, hsl.l),
         g |-> Channel(sel[2] + 30, hsl.s, hsl.l),
         b |-> Channel(sel[3] + 30, hsl.s, hsl.l)]

\* hn = h % 360 alone: a negative hue stays negative and falls into the
\* first sector.
hslToRgbNoWrap(hsl) ==
    LET hn == JsRem(hsl.h, 360)
        xk == 60 - Abs(JsRem(hn, 120) - 60)
        c  == 60
        sel == IF hn < 60 THEN <<c, xk, 0>>
               ELSE IF hn < 120 THEN <<xk, c, 0>>
               ELSE IF hn < 180 THEN <<0, c, xk>>
               ELSE IF hn < 240 THEN <<0, xk, c>>
               ELSE IF hn < 300 THEN <<xk, 0, c>>
               ELSE <<c, 0, xk>>
    IN  [r |-> Channel(sel[1], hsl.s, hsl.l),
         g |-> Channel(sel[2], hsl.s, hsl.l),
         b |-> Channel(sel[3], hsl.s, hsl.l)]

\* Channel rounds the exact value of (comp + m) * 255.  Where that value is
\* a half, the doubles of the code may reach it or stay one bit below it,
\* and Math.round then returns one less.  RoundsBelow lists, among the
\* colors <<hn, s, l>> the specifications below pass to hslToRgb, the
\* channels for which the IEEE-754 computation stays below the half.
RoundsBelow ==
    {<<0, 0 - Pct(50), 0 - Pct(20), "r">>,
     <<45, 0 - Pct(50), 0 - Pct(20), "r">>,
     <<60, 0 - Pct(50), 0 - Pct(20), "g">>,
     <<60, 0 - Pct(50), 0 - Pct(20), "r">>,
     <<120, 0 - Pct(50), 0 - Pct(20), "g">>,
     <<180, 0 - Pct(50), 0 - Pct(20), "b">>,
     <<180, 0 - Pct(50), 0 - Pct(20), "g">>,
     <<240, 0 - Pct(50), 0 - Pct(20), "b">>,
     <<300, 0 - Pct(50), 0 - Pct(20), "b">>,
     <<300, 0 - Pct(50), 0 - Pct(20), "r">>, <<20, Pct(40), Pct(50), "g">>,
     <<100, Pct(40), Pct(50), "r">>, <<130, Pct(40), Pct(50), "b">>,
     <<230, Pct(40), Pct(50), "g">>, <<260, Pct(40), Pct(50), "r">>,
     <<340, Pct(40), Pct(50), "b">>, <<0, Pct(50), 0 - Pct(20), "b">>,
     <<0, Pct(50), 0 - Pct(20), "g">>, <<45, Pct(50), 0 - Pct(20), "b">>,
     <<60, Pct(50), 0 - Pct(20), "b">>, <<120, Pct(50), 0 - Pct(20), "b">>,
     <<120, Pct(50), 0 - Pct(20), "r">>, <<180, Pct(50), 0 - Pct(20), "r">>,
     <<240, Pct(50), 0 - Pct(20), "g">>, <<240, Pct(50), 0 - Pct(20), "r">>,
     <<300, Pct(50), 0 - Pct(20), "g">>, <<0, Pct(50), Pct(120), "b">>,
     <<0, Pct(50), Pct(120), "g">>, <<0, Pct(50), Pct(120), "r">>,
     <<45, Pct(50), Pct(120), "b">>, <<45, Pct(50), Pct(120), "r">>,
     <<60, Pct(50), Pct(120), "b">>, <<60, Pct(50), Pct(120), "g">>,
     <<60, Pct(50), Pct(120), "r">>, <<120, Pct(50), Pct(120), "b">>,
     <<120, Pct(50), Pct(120), "g">>, <<120, Pct(50), Pct(120), "r">>,
     <<180, Pct(50), Pct(120), "b">>, <<180, Pct(50), Pct(120), "g">>,
     <<180, Pct(50), Pct(120), "r">>, <<240, Pct(50), Pct(120), "b">>,
     <<240, Pct(50), Pct(120), "g">>, <<240, Pct(50), Pct(120), "r">>,
     <<300, Pct(50), Pct(120), "b">>, <<300, Pct(50), Pct(120), "g">>,
     <<300, Pct(50), Pct(120), "r">>, <<70, Pct(100), Pct(22), "r">>,
     <<290, Pct(100), Pct(22), "r">>, <<310, Pct(100), Pct(22), "b">>,
     <<2, Pct(100), Pct(50), "g">>, <<6, Pct(100), Pct(50), "g">>,
     <<10, Pct(100), Pct(50), "g">>, <<62, Pct(100), Pct(50), "r">>,
     <<66, Pct(100), Pct(50), "r">>, <<70, Pct(100), Pct(50), "r">>,
     <<74, Pct(100), Pct(50), "r">>, <<122, Pct(100), Pct(50), "b">>,
     <<130, Pct(100), Pct(50), "b">>, <<138, Pct(100), Pct(50), "b">>,
     <<146, Pct(100), Pct(50), "b">>, <<166, Pct(100), Pct(50), "b">>,
     <<174, Pct(100), Pct(50), "b">>, <<186, Pct(100), Pct(50), "g">>,
     <<194, Pct(100), Pct(50), "g">>, <<214, Pct(100), Pct(50), "g">>,
     <<222, Pct(100), Pct(50), "g">>, <<230, Pct(100), Pct(50), "g">>,
     <<238, Pct(100), Pct(50), "g">>, <<242, Pct(100), Pct(50), "r">>,
     <<246, Pct(100), Pct(50), "r">>, <<258, Pct(100), Pct(50), "r">>,
     <<262, Pct(100), Pct(50), "r">>, <<274, Pct(100), Pct(50), "r">>,
     <<286, Pct(100), Pct(50), "r">>, <<290, Pct(100), Pct(50), "r">>,
     <<310, Pct(100), Pct(50), "b">>, <<314, Pct(100), Pct(50), "b">>,
     <<326, Pct(100), Pct(50), "b">>, <<338, Pct(100), Pct(50), "b">>,
     <<342, Pct(100), Pct(50), "b">>, <<354, Pct(100), Pct(50), "b">>,
     <<358, Pct(100), Pct(50), "b">>, <<0, Pct(150), 0 - Pct(20), "b">>,
     <<0, Pct(150), 0 - Pct(20), "g">>, <<45, Pct(150), 0 - Pct(20), "b">>,
     <<60, Pct(150), 0 - Pct(20), "b">>, <<120, Pct(150), 0 - Pct(20), "b">>,
     <<120, Pct(150), 0 - Pct(20), "r">>, <<180, Pct(150), 0 - Pct(20), "r">>,
     <<240, Pct(150), 0 - Pct(20), "g">>, <<240, Pct(150), 0 - Pct(20), "r">>,
     <<300, Pct(150), 0 - Pct(20), "g">>}

hslToRgb(hsl) ==
    LET hn == JsRem(JsRem(hsl.h, 360) + 360, 360)
        \* 60 * (1 - |((hn / 60) % 2) - 1|): x = c * xk / 60
        xk == 60 - Abs((hn % 120) - 60)
        c  == 60
        sel == IF hn < 60 THEN <<c, xk, 0>>
               ELSE IF hn < 120 THEN <<xk, c, 0>>
               ELSE IF hn < 180 THEN <<0, c, xk>>
               ELSE IF hn < 240 THEN <<0, xk, c>>
               ELSE IF hn < 300 THEN <<xk, 0, c>>
               ELSE <<c, 0, xk>>
        round(ch, k) ==
            Channel(k, hsl.s, hsl.l)
                - (IF <<hn, hsl.s, hsl.l, ch>> \in RoundsBelow THEN 1 ELSE 0)
    IN  [r |-> round("r", sel[1]), g |-> round("g", sel[2]), b |-> round("b", sel[3])]

HexDigits == <<"0","1","2","3","4","5","6","7","8","9","a","b","c","d","e","f">>

\* Number.prototype.toString(16) of an integer.
RECURSIVE toString16(_)
toString16(n) ==
    IF n < 0 THEN <<"-">> \o toString16(-n)
    ELSE IF n < 16 THEN <<HexDigits[n + 1]>>
    ELSE toString16(n \div 16) \o <<HexDigits[(n % 16) + 1]>>

\* Without padStart(2, "0").
rgbToHexNoPad(rgb) ==
    <<"#">> \o toString16(rgb.r) \o toString16(rgb.g) \o toString16(rgb.b)

rgbToHex(rgb) ==
    LET hex(n) == padStart(toString16(n), 2, "0")
    IN  <<"#">> \o hex(rgb.r) \o hex(rgb.g) \o hex(rgb.b)

\* NaN, as a number no parse of digits yields.
NaN == 0 - 1

\* The value of the leading hex digits of str, after acc.
RECURSIVE ParseDigits(_, _)
ParseDigits(str, acc) ==
    IF str = <<>> \/ ~Has(HexDigits, str[1]) THEN acc
    ELSE ParseDigits(Tail(str), acc * 16 + IndexOf(HexDigits, str[1]) - 1)

\* parseInt(str, 16) on a string without sign or prefix: the value of its
\* leading hex digits, NaN when it has none.
parseInt16(str) ==
    IF str = <<>> \/ ~Has(HexDigits, str[1]) THEN NaN ELSE ParseDigits(str, 0)

\* Without replace(/^#/, "").
hexToRgbNoStrip(hex) ==
    [r |-> parseInt16(slice(hex, 0, 2)),
     g |-> parseInt16(slice(hex, 2, 4)),
     b |-> parseInt16(slice(hex, 4, 6))]

hexToRgb(hex) ==
    LET h == IF hex # <<>> /\ hex[1] = "#" THEN Tail(hex) ELSE hex   \* replace(/^#/, "")
    IN  [r |-> parseInt16(slice(h, 0, 2)),
         g |-> parseInt16(slice(h, 2, 4)),
         b |-> parseInt16(slice(h, 4, 6))]

hslToHex(hsl) == rgbToHex(hslToRgb(hsl))

-----------------------------------------------------------------------------
(* Contrast helpers (WCAG 2.0). *)

\* Math.pow((c / 255 + 0.055) / 1.055, 2.4) in units of 10^-9, for the
\* channel values c = 11 .. 255 (entry c - 10).
GammaTable == <<
    3346536, 3676507, 4024717, 4391442, 4776953, 5181517, 5605392, 6048833,
    6512091, 6995410, 7499032, 8023193, 8568126, 9134059, 9721217, 10329823,
    10960094, 11612245, 12286488, 12983032, 13702083, 14443844, 15208514, 15996293,
    16807376, 17641954, 18500220, 19382361, 20288563, 21219010, 22173885, 23153366,
    24157632, 25186860, 26241222, 27320892, 28426040, 29556834, 30713444, 31896033,
    33104767, 34339807, 35601315, 36889450, 38204372, 39546235, 40915197, 42311411,
    43735029, 45186204, 46665086, 48171824, 49706566, 51269458, 52860647, 54480276,
    56128490, 57805430, 59511238, 61246054, 63010018, 64803267, 66625939, 68478170,
    70360096, 72271851, 74213568, 76185381, 78187422, 80219820, 82282707, 84376212,
    86500462, 88655586, 90841711, 93058963, 95307467, 97587347, 99898728, 102241733,
    104616484, 107023103, 109461711, 111932428, 114435374, 116970668, 119538428, 122138772,
    124771818, 127437680, 130136477, 132868322, 135633330, 138431615, 141263291, 144128471,
    147027266, 149959790, 152926152, 155926464, 158960835, 162029376, 165132195, 168269400,
    171441101, 174647404, 177888416, 181164244, 184474995, 187820772, 191201683, 194617830,
    198069320, 201556254, 205078736, 208636870, 212230757, 215860500, 219526200, 223227957,
    226965874, 230740049, 234550582, 238397574, 242281122, 246201327, 250158285, 254152094,
    258182853, 262250658, 266355605, 270497791, 274677312, 278894263, 283148740, 287440838,
    291770650, 296138271, 300543794, 304987314, 309468923, 313988713, 318546778, 323143209,
    327778098, 332451536, 337163615, 341914425, 346704056, 351532600, 356400144, 361306780,
    366252596, 371237680, 376262123, 381326011, 386429434, 391572478, 396755231, 401977780,
    407240212, 412542613, 417885071, 423267670, 428690497, 434153636, 439657174, 445201195,
    450785783, 456411023, 462077000, 467783796, 473531496, 479320183, 485149940, 491020850,
    496932995, 502886458, 508881321, 514917665, 520995573, 527115126, 533276404, 539479489,
    545724461, 552011402, 558340390, 564711506, 571124829, 577580440, 584078418, 590618841,
    597201788, 603827339, 610495571, 617206562, 623960392, 630757136, 637596874, 644479682,
    651405637, 658374817, 665387298, 672443157, 679542470, 686685312, 693871761, 701101892,
    708375780, 715693501, 723055129, 730460740, 737910409, 745404210, 752942217, 760524505,
    768151147, 775822218, 783537792, 791297940, 799102738, 806952258, 814846572, 822785754,
    830769877, 838799012, 846873232, 854992608, 863157213, 871367119, 879622397, 887923118,
    896269353, 904661174, 913098652, 921581856, 930110858, 938685728, 947306537, 955973353,
    964686248, 973445290, 982250550, 991102097, 1000000000 >>

\* linearize(c) of relativeLuminance, in units of 10^-9.
linearize(c) ==
    IF c * 100000 <= 3928 * 255                       \* c / 255 <= 0.03928
    THEN LET n == c * 100000000                       \* s / 12.92 = c * 10^10 / 32946
         IN  (n \div 32946) * 100 + ((n % 32946) * 100) \div 32946
    ELSE GammaTable[c - 10]

\* 0.2126 R + 0.7152 G + 0.0722 B, in units of 10^-13, as limbs.
relativeLuminance(rgb) ==
    Normalize(WideLin(1, WideLin(2126, Limbs(linearize(rgb.r)),
                                 7152, Limbs(linearize(rgb.g))),
                      722, Limbs(linearize(rgb.b))) \o <<0>>)

\* a >= b for normalized non-negative limb sequences.
LimbsGeq(a, b) == WideNonNeg(WideLin(1, a, -1, b) \o <<0>>)

\* 0.05 in units of 10^-13.
Flare == ShiftLimbs(<<5000>>, 2)

\* (lighter + 0.05) / (darker + 0.05), as the fraction [num, den].
contrastRatio(a, b) ==
    LET la == relativeLuminance(a)
        lb == relativeLuminance(b)
        lighter == IF LimbsGeq(la, lb) THEN la ELSE lb
        darker  == IF LimbsGeq(la, lb) THEN lb ELSE la
    IN  [num |-> Normalize(WideLin(1, lighter, 1, Flare) \o <<0>>),
         den |-> Normalize(WideLin(1, darker, 1, Flare) \o <<0>>)]

\* x >= y for two such fractions: x.num * y.den >= y.num * x.den.
RatioGeq(x, y) ==
    WideNonNeg(WideLin(1, WideMul(x.num, y.den), -1, WideMul(y.num, x.den)) \o <<0>>)

\* The ratio p / q of two integers as a fraction of limb sequences.
Ratio(p, q) == [num |-> Limbs(p), den |-> Limbs(q)]

White == [r |-> 255, g |-> 255, b |-> 255]
Black == [r |-> 0, g |-> 0, b |-> 0]
HexWhite == <<"#","f","f","f","f","f","f">>
HexBlack == <<"#","0","0","0","0","0","0">>

\* chooseForeground with the comparison of the two contrasts reversed.
\* The two literals in their three-digit shorthand.
chooseForegroundShorthand(backgroundHex) ==
    LET bg == hexToRgb(backgroundHex)
    IN  IF RatioGeq(contrastRatio(bg, White), contrastRatio(bg, Black))
        THEN <<"#","f","f","f">> ELSE <<"#","0","0","0">>

chooseForegroundReversed(backgroundHex) ==
    LET bg == hexToRgb(backgroundHex)
    IN  IF RatioGeq(contrastRatio(bg, Black), contrastRatio(bg, White))
        THEN HexWhite ELSE HexBlack

chooseForeground(backgroundHex) ==
    LET bg == hexToRgb(backgroundHex)
    IN  IF RatioGeq(contrastRatio(bg, White), contrastRatio(bg, Black))
        THEN HexWhite ELSE HexBlack

-----------------------------------------------------------------------------
(* HSL generation. *)

Dark == "dark"
Light == "light"
HighContrast == "highContrast"
ThemeKind == {Dark, Light, HighContrast}

\* What three successive calls of Math.random() may return, as multiples
\* of 1 / RandSteps.
RandomDraws == [1..3 -> 0..(RandSteps - 1)]

\* Math.random() * span for the i-th of the draws in random, span in the
\* unit of the result.  The source does not floor the product; the draws of
\* the grid are those for which it is a whole number of units.
Random(random, i, span) == (random[i] * span) \div RandSteps

generateAppealingHsl(theme, random) ==
    LET h == Random(random, 1, 360)
    IN  CASE theme = Light ->
               [h |-> h, s |-> Pct(25) + Random(random, 2, Pct(60)), l |-> Pct(65) + Random(random, 3, Pct(25))]
          [] theme = HighContrast ->
               [h |-> h, s |-> Pct(40) + Random(random, 2, Pct(50)), l |-> Pct(10) + Random(random, 3, Pct(18))]
          [] OTHER ->
               [h |-> h, s |-> Pct(20) + Random(random, 2, Pct(65)), l |-> Pct(12) + Random(random, 3, Pct(28))]

\* Math.sin(h / 360 * Math.PI * 2) in units of 10^-8, for h = 0 .. 359
\* (entry h + 1).
SinTable == <<
    0, 1745241, 3489950, 5233596, 6975647, 8715574, 10452846, 12186934,
    13917310, 15643447, 17364818, 19080900, 20791169, 22495105, 24192190, 25881905,
    27563736, 29237170, 30901699, 32556815, 34202014, 35836795, 37460659, 39073113,
    40673664, 42261826, 43837115, 45399050, 46947156, 48480962, 50000000, 51503807,
    52991926, 54463904, 55919290, 57357644, 58778525, 60181502, 61566148, 62932039,
    64278761, 65605903, 66913061, 68199836, 69465837, 70710678, 71933980, 73135370,
    74314483, 75470958, 76604444, 77714596, 78801075, 79863551, 80901699, 81915204,
    82903757, 83867057, 84804810, 85716730, 86602540, 87461971, 88294759, 89100652,
    89879405, 90630779, 91354546, 92050485, 92718385, 93358043, 93969262, 94551858,
    95105652, 95630476, 96126170, 96592583, 97029573, 97437006, 97814760, 98162718,
    98480775, 98768834, 99026807, 99254615, 99452190, 99619470, 99756405, 99862953,
    99939083, 99984770, 100000000, 99984770, 99939083, 99862953, 99756405, 99619470,
    99452190, 99254615, 99026807, 98768834, 98480775, 98162718, 97814760, 97437006,
    97029573, 96592583, 96126170, 95630476, 95105652, 94551858, 93969262, 93358043,
    92718385, 92050485, 91354546, 90630779, 89879405, 89100652, 88294759, 87461971,
    86602540, 85716730, 84804810, 83867057, 82903757, 81915204, 80901699, 79863551,
    78801075, 77714596, 76604444, 75470958, 74314483, 73135370, 71933980, 70710678,
    69465837, 68199836, 66913061, 65605903, 64278761, 62932039, 61566148, 60181502,
    58778525, 57357644, 55919290, 54463904, 52991926, 51503807, 50000000, 48480962,
    46947156, 45399050, 43837115, 42261826, 40673664, 39073113, 37460659, 35836795,
    34202014, 32556815, 30901699, 29237170, 27563736, 25881905, 24192190, 22495105,
    20791169, 19080900, 17364818, 15643447, 13917310, 12186934, 10452846, 8715574,
    6975647, 5233596, 3489950, 1745241, 0, -1745241, -3489950, -5233596,
    -6975647, -8715574, -10452846, -12186934, -13917310, -15643447, -17364818, -19080900,
    -20791169, -22495105, -24192190, -25881905, -27563736, -29237170, -30901699, -32556815,
    -34202014, -35836795, -37460659, -39073113, -40673664, -42261826, -43837115, -45399050,
    -46947156, -48480962, -50000000, -51503807, -52991926, -54463904, -55919290, -57357644,
    -58778525, -60181502, -61566148, -62932039, -64278761, -65605903, -66913061, -68199836,
    -69465837, -70710678, -71933980, -73135370, -74314483, -75470958, -76604444, -77714596,
    -78801075, -79863551, -80901699, -81915204, -82903757, -83867057, -84804810, -85716730,
    -86602540, -87461971, -88294759, -89100652, -89879405, -90630779, -91354546, -92050485,
    -92718385, -93358043, -93969262, -94551858, -95105652, -95630476, -96126170, -96592583,
    -97029573, -97437006, -97814760, -98162718, -98480775, -98768834, -99026807, -99254615,
    -99452190, -99619470, -99756405, -99862953, -99939083, -99984770, -100000000, -99984770,
    -99939083, -99862953, -99756405, -99619470, -99452190, -99254615, -99026807, -98768834,
    -98480775, -98162718, -97814760, -97437006, -97029573, -96592583, -96126170, -95630476,
    -95105652, -94551858, -93969262, -93358043, -92718385, -92050485, -91354546, -90630779,
    -89879405, -89100652, -88294759, -87461971, -86602540, -85716730, -84804810, -83867057,
    -82903757, -81915204, -80901699, -79863551, -78801075, -77714596, -76604444, -75470958,
    -74314483, -73135370, -71933980, -70710678, -69465837, -68199836, -66913061, -65605903,
    -64278761, -62932039, -61566148, -60181502, -58778525, -57357644, -55919290, -54463904,
    -52991926, -51503807, -50000000, -48480962, -46947156, -45399050, -43837115, -42261826,
    -40673664, -39073113, -37460659, -35836795, -34202014, -32556815, -30901699, -29237170,
    -27563736, -25881905, -24192190, -22495105, -20791169, -19080900, -17364818, -15643447,
    -13917310, -12186934, -10452846, -8715574, -6975647, -5233596, -3489950, -1745241 >>

\* base + wave * amp percent, in millionths of a percent (rounded down).
\* The wave at twice its amplitude.
WaveDoubled(base, amp, h) == Pct(base) + 2 * ((SinTable[h + 1] * amp) \div 100)

Wave(base, amp, h) == Pct(base) + (SinTable[h + 1] * amp) \div 100

\* h = hue % 360 alone: a negative hue stays negative.
hslFromHueNoWrap(hue, theme) ==
    LET h == JsRem(hue, 360)
        w == JsRem(JsRem(hue, 360) + 360, 360)
    IN  CASE theme = Light ->
               [h |-> h, s |-> Wave(35, 20, w), l |-> Wave(72, 8, w)]
          [] theme = HighContrast ->
               [h |-> h, s |-> Wave(55, 15, w), l |-> Wave(16, 5, w)]
          [] OTHER ->
               [h |-> h, s |-> Wave(40, 20, w), l |-> Wave(22, 8, w)]

hslFromHue(hue, theme) ==
    LET h == JsRem(JsRem(hue, 360) + 360, 360)
    IN  CASE theme = Light ->
               [h |-> h, s |-> Wave(35, 20, h), l |-> Wave(72, 8, h)]
          [] theme = HighContrast ->
               [h |-> h, s |-> Wave(55, 15, h), l |-> Wave(16, 5, h)]
          [] OTHER ->
               [h |-> h, s |-> Wave(40, 20, h), l |-> Wave(22, 8, h)]

-----------------------------------------------------------------------------
(* Derived colors. *)

\* s * 1.35 in place of s * 0.65.
deriveInactiveHslBoosted(hsl, theme) ==
    [h |-> hsl.h,
     s |-> clamp((hsl.s * 27) \div 20, 0, Pct(100)),
     l |-> clamp(IF theme = Light THEN hsl.l + Pct(5) ELSE hsl.l - Pct(3),
                 0, Pct(100))]

deriveInactiveHsl(hsl, theme) ==
    [h |-> hsl.h,
     s |-> clamp((hsl.s * 13) \div 20, 0, Pct(100)),          \* s * 0.65
     l |-> clamp(IF theme = Light THEN hsl.l + Pct(5) ELSE hsl.l - Pct(3),
                 0, Pct(100))]

\* The suffix of 60 % opacity.
deriveInactiveForeground99(activeForeground) == activeForeground \o <<"9","9">>

deriveInactiveForeground(activeForeground) == activeForeground \o <<"c","c">>

\* The offset of the Light theme with its sign turned.
deriveBorderHslLighter(hsl, theme) ==
    [h |-> hsl.h,
     s |-> clamp((hsl.s * 3) \div 5, 0, Pct(100)),
     l |-> clamp(IF theme = Light THEN hsl.l + Pct(12) ELSE hsl.l - Pct(6),
                 0, Pct(100))]

deriveBorderHsl(hsl, theme) ==
    [h |-> hsl.h,
     s |-> clamp((hsl.s * 3) \div 5, 0, Pct(100)),            \* s * 0.6
     l |-> clamp(IF theme = Light THEN hsl.l - Pct(12) ELSE hsl.l - Pct(6),
                 0, Pct(100))]

-----------------------------------------------------------------------------
(* Full title-bar color set. *)

\* The inactive foreground left without its alpha suffix.
titleBarColorsFromHslPlainInactive(hsl, theme) ==
    LET activeBackground == hslToHex(hsl)
        activeForeground == chooseForeground(activeBackground)
    IN  [activeBackground   |-> activeBackground,
         activeForeground   |-> activeForeground,
         inactiveBackground |-> hslToHex(deriveInactiveHsl(hsl, theme)),
         inactiveForeground |-> activeForeground,
         border             |-> hslToHex(deriveBorderHsl(hsl, theme))]

titleBarColorsFromHsl(hsl, theme) ==
    LET activeBackground == hslToHex(hsl)
        activeForeground == chooseForeground(activeBackground)
    IN  [activeBackground   |-> activeBackground,
         activeForeground   |-> activeForeground,
         inactiveBackground |-> hslToHex(deriveInactiveHsl(hsl, theme)),
         inactiveForeground |-> deriveInactiveForeground(activeForeground),
         border             |-> hslToHex(deriveBorderHsl(hsl, theme))]

generateTitleBarColors(theme, random) ==
    titleBarColorsFromHsl(generateAppealingHsl(theme, random), theme)

generateTitleBarColorsFromHue(hue, theme) == titleBarColorsFromHsl(hslFromHue(hue, theme), theme)

\* The ranges of the Dark theme for every theme.
SeedHslNoTheme(seed, theme) ==
    LET hue    == hashStringToHue(seed)
        sFloat == hashStringToFloat(seed, 1)
        lFloat == hashStringToFloat(seed, 2)
    IN  [h |-> hue, s |-> Pct(20) + sFloat * 6500, l |-> Pct(12) + lFloat * 2800]

\* The base HSL of generateTitleBarColorsFromSeed.
SeedHsl(seed, theme) ==
    LET hue    == hashStringToHue(seed)
        sFloat == hashStringToFloat(seed, 1)
        lFloat == hashStringToFloat(seed, 2)
    IN  CASE theme = Light ->
               [h |-> hue, s |-> Pct(25) + sFloat * 6000, l |-> Pct(65) + lFloat * 2500]
          [] theme = HighContrast ->
               [h |-> hue, s |-> Pct(40) + sFloat * 5000, l |-> Pct(10) + lFloat * 1800]
          [] OTHER ->
               [h |-> hue, s |-> Pct(20) + sFloat * 6500, l |-> Pct(12) + lFloat * 2800]

generateTitleBarColorsFromSeed(seed, theme) == titleBarColorsFromHsl(SeedHsl(seed, theme), theme)

-----------------------------------------------------------------------------
(* title-bar-manager.ts *)

Undefined == [undefined |-> TRUE]

TITLE_BAR_KEYS ==
    <<"titleBar.activeBackground", "titleBar.activeForeground",
      "titleBar.inactiveBackground", "titleBar.inactiveForeground",
      "titleBar.border">>

TitleKeys == {TITLE_BAR_KEYS[i] : i \in 1..Len(TITLE_BAR_KEYS)}

\* Keys of workbench.colorCustomizations that belong to the user.
OtherKeys == {"statusBar.background", "editor.background"}

AllKeys == TitleKeys \cup OtherKeys

\* A Record<string, string> is a function on AllKeys; a key that the
\* object does not have maps to Absent.
Absent == <<>>
EmptyMap == [k \in AllKeys |-> Absent]
Keys(map) == {k \in AllKeys : map[k] # Absent}       \* Object.keys

\* vscode.ColorThemeKind
ColorThemeKinds == {"Light", "Dark", "HighContrast", "HighContrastLight"}

getThemeKind ==
    CASE themeKind \in {"Light", "HighContrastLight"} -> Light
      [] themeKind = "HighContrast" -> HighContrast
      [] OTHER -> Dark

\* hasWorkspace without the test of the length.
hasWorkspaceDefined == folders # Undefined

hasWorkspace == folders # Undefined /\ Len(folders.list) > 0

\* getWorkspaceSeed taking the last folder instead of the first.
getWorkspaceSeedLast ==
    IF folders # Undefined /\ Len(folders.list) > 0
    THEN [some |-> folders.list[Len(folders.list)]]
    ELSE Undefined

\* The URI string of the first folder as [some |-> uri], or Undefined.
getWorkspaceSeed ==
    IF folders # Undefined /\ Len(folders.list) > 0
    THEN [some |-> folders.list[1]]
    ELSE Undefined

\* hasSavedColors with === in place of !==.
hasSavedColorsInverted == saved = Undefined

hasSavedColors == saved # Undefined

getSavedColors == saved

\* config.get("workbench.colorCustomizations") ?? {}
CurrentMap == IF config = Undefined THEN EmptyMap ELSE config.map

\* The object literal of applyColors without the spread of current.
MergeColorsNoSpread(current, colors) ==
    [k \in AllKeys |->
        CASE k = "titleBar.activeBackground"   -> colors.activeBackground
          [] k = "titleBar.activeForeground"   -> colors.activeForeground
          [] k = "titleBar.inactiveBackground" -> colors.inactiveBackground
          [] k = "titleBar.inactiveForeground" -> colors.inactiveForeground
          [] k = "titleBar.border"             -> colors.border
          [] OTHER -> Absent]

\* { ...current, "titleBar.activeBackground": colors.activeBackground, ... }
MergeColors(current, colors) ==
    [k \in AllKeys |->
        CASE k = "titleBar.activeBackground"   -> colors.activeBackground
          [] k = "titleBar.activeForeground"   -> colors.activeForeground
          [] k = "titleBar.inactiveBackground" -> colors.inactiveBackground
          [] k = "titleBar.inactiveForeground" -> colors.inactiveForeground
          [] k = "titleBar.border"             -> colors.border
          [] OTHER -> current[k]]

\* The deletion of every key, those of the user too.
RemoveEveryKey(current) == [k \in AllKeys |-> Absent]

\* The deletion that leaves titleBar.border in place.
RemoveTitleKeysButBorder(current) ==
    [k \in AllKeys |->
        IF k \in TitleKeys \ {"titleBar.border"} THEN Absent ELSE current[k]]

\* { ...current } with every key of TITLE_BAR_KEYS deleted.
RemoveTitleKeys(current) ==
    [k \in AllKeys |-> IF k \in TitleKeys THEN Absent ELSE current[k]]

\* The value of resetColors without the test for an empty object.
ResetValueAlwaysMap(updated) == [map |-> updated]

\* Object.keys(updated).length === 0 ? undefined : updated
ResetValue(updated) == IF Keys(updated) = {} THEN Undefined ELSE [map |-> updated]

(* A call of applyColors or resetColors, per slot.  pc is its position:   *)
(* "idle", "configUpdate" (awaiting config.update) or "stateUpdate"        *)
(* (awaiting state.update).  cmd, ret and msg keep what the last call in   *)
(* the slot was, what it returned and which message its handler showed.    *)
IdleCall == [pc |-> "idle", cmd |-> "none", op |-> "none", colors |-> Undefined,
             value |-> Undefined, ret |-> "none", msg |-> "none"]

\* The message the command handler shows once its call has returned.
HandlerMessage(cmd, op) ==
    CASE cmd = "randomize" -> "updated"
      [] cmd = "pickHue"   -> "set"
      [] cmd = "reset"     -> "reset"
      [] OTHER             -> "none"

None == [none |-> TRUE]

\* applyColors without its hasWorkspace guard.
ApplyColorsCallUnguarded(p, cmd, colors) ==
    /\ calls' = [calls EXCEPT ![p] =
           [pc |-> "configUpdate", cmd |-> cmd, op |-> "apply", colors |-> colors,
            value |-> [map |-> MergeColors(CurrentMap, colors)],
            ret |-> "none", msg |-> "none"]]
    /\ UNCHANGED lastCall

\* The synchronous head of applyColors(colors), called for cmd in slot p.
ApplyColorsCall(p, cmd, colors) ==
    /\ IF ~hasWorkspace
       THEN calls' = [calls EXCEPT ![p] =
                [IdleCall EXCEPT !.cmd = cmd, !.op = "apply", !.ret = "false",
                                 !.msg = "warning"]]
       ELSE calls' = [calls EXCEPT ![p] =
                [pc |-> "configUpdate", cmd |-> cmd, op |-> "apply", colors |-> colors,
                 value |-> [map |-> MergeColors(CurrentMap, colors)],
                 ret |-> "none", msg |-> "none"]]
    /\ UNCHANGED lastCall

\* resetColors without its hasWorkspace guard.
ResetColorsCallUnguarded(p, cmd) ==
    /\ calls' = [calls EXCEPT ![p] =
           [pc |-> "configUpdate", cmd |-> cmd, op |-> "reset", colors |-> Undefined,
            value |-> ResetValue(RemoveTitleKeys(CurrentMap)),
            ret |-> "none", msg |-> "none"]]
    /\ UNCHANGED lastCall

\* The synchronous head of resetColors(), called for cmd in slot p.
ResetColorsCall(p, cmd) ==
    IF ~hasWorkspace
    THEN /\ calls' = [calls EXCEPT ![p] =
                [IdleCall EXCEPT !.cmd = cmd, !.op = "reset", !.ret = "void",
                                 !.msg = HandlerMessage(cmd, "reset")]]
         /\ lastCall' = [op |-> "reset", colors |-> Undefined]
    ELSE /\ calls' = [calls EXCEPT ![p] =
                [pc |-> "configUpdate", cmd |-> cmd, op |-> "reset", colors |-> Undefined,
                 value |-> ResetValue(RemoveTitleKeys(CurrentMap)),
                 ret |-> "none", msg |-> "none"]]
         /\ UNCHANGED lastCall

\* await config.update("workbench.colorCustomizations", value, Workspace)
ConfigUpdated(p) ==
    /\ calls[p].pc = "configUpdate"
    /\ config' = calls[p].value
    /\ calls' = [calls EXCEPT ![p].pc = "stateUpdate"]
    /\ UNCHANGED <<folders, themeKind, colorOnStartup, saved, actPc, startup,
                   lastCall, pin, pout, seen>>

\* await this.state.update(STATE_KEY, ..), the return, and the rest of the
\* command handler.
StateUpdated(p) ==
    /\ calls[p].pc = "stateUpdate"
    /\ saved' = calls[p].colors
    /\ calls' = [calls EXCEPT ![p] =
           [IdleCall EXCEPT !.cmd = calls[p].cmd, !.op = calls[p].op,
                            !.ret = IF calls[p].op = "apply" THEN "true" ELSE "void",
                            !.msg = HandlerMessage(calls[p].cmd, calls[p].op)]]
    /\ lastCall' = [op |-> calls[p].op, colors |-> calls[p].colors]
    /\ UNCHANGED <<folders, themeKind, colorOnStartup, config, actPc, startup,
                   pin, pout, seen>>

-----------------------------------------------------------------------------
(* extension.ts *)

HUE_PRESETS ==
    << [label |-> "Red",     hue |-> 0],
       [label |-> "Orange",  hue |-> 30],
       [label |-> "Amber",   hue |-> 45],
       [label |-> "Yellow",  hue |-> 55],
       [label |-> "Lime",    hue |-> 80],
       [label |-> "Green",   hue |-> 120],
       [label |-> "Teal",    hue |-> 175],
       [label |-> "Cyan",    hue |-> 190],
       [label |-> "Blue",    hue |-> 220],
       [label |-> "Indigo",  hue |-> 245],
       [label |-> "Purple",  hue |-> 275],
       [label |-> "Magenta", hue |-> 300],
       [label |-> "Pink",    hue |-> 330],
       [label |-> "Rose",    hue |-> 350] >>

\* The slot of the applyColors call that activate() leaves un-awaited;
\* the command handlers run in slots 1..MaxCommands.
StartupSlot == 0
CommandSlots == 1..MaxCommands
Slots == {StartupSlot} \cup CommandSlots

\* The presets the user picks among in the quick-pick (a prefix of
\* HUE_PRESETS), 0 standing for a dismissed quick-pick.
Pickable == 0..MaxPick

\* Command coloredTitleBar.randomize, up to its first await.
Randomize(p) ==
    /\ actPc = "done"
    /\ calls[p].pc = "idle"
    /\ \E random \in RandomDraws :
          ApplyColorsCall(p, "randomize", generateTitleBarColors(getThemeKind, random))
    /\ UNCHANGED <<folders, themeKind, colorOnStartup, config, saved, actPc, startup,
                   pin, pout, seen>>

\* Command coloredTitleBar.pickHue: the quick-pick, then up to the await
\* of applyColors.
PickHue(p) ==
    /\ actPc = "done"
    /\ calls[p].pc = "idle"
    /\ \E i \in Pickable :
          IF i = 0
          THEN /\ calls' = [calls EXCEPT ![p] = [IdleCall EXCEPT !.cmd = "pickHue"]]
               /\ UNCHANGED lastCall
          ELSE ApplyColorsCall(p, "pickHue",
                   generateTitleBarColorsFromHue(HUE_PRESETS[i].hue, getThemeKind))
    /\ UNCHANGED <<folders, themeKind, colorOnStartup, config, saved, actPc,
                   startup, pin, pout, seen>>

\* Command coloredTitleBar.reset, up to its first await.
Reset(p) ==
    /\ actPc = "done"
    /\ calls[p].pc = "idle"
    /\ ResetColorsCall(p, "reset")
    /\ UNCHANGED <<folders, themeKind, colorOnStartup, config, saved, actPc,
                   startup, pin, pout, seen>>

\* activate(): registers the commands and runs the startup logic.
Activate ==
    /\ actPc = "start"
    /\ actPc' = "done"
    /\ IF ~hasWorkspace
       THEN /\ startup' = "noWorkspace"
            /\ UNCHANGED <<calls, lastCall>>
       ELSE IF colorOnStartup
       THEN /\ startup' = "random"
            /\ \E random \in RandomDraws :
                  ApplyColorsCall(StartupSlot, "startup",
                      generateTitleBarColors(getThemeKind, random))
       ELSE IF ~hasSavedColors
       THEN LET seed == getWorkspaceSeed
            IN  IF seed # Undefined /\ seed.some # <<>>
                THEN /\ startup' = "seeded"
                     /\ ApplyColorsCall(StartupSlot, "startup",
                            generateTitleBarColorsFromSeed(seed.some, getThemeKind))
                ELSE /\ startup' = "noSeed"
                     /\ UNCHANGED <<calls, lastCall>>
       ELSE /\ startup' = "keep"
            /\ UNCHANGED <<calls, lastCall>>
    /\ UNCHANGED <<folders, themeKind, colorOnStartup, config, saved, pin, pout, seen>>

-----------------------------------------------------------------------------
(* The extension as a state machine. *)

FolderA == <<"f","i","l","e",":","/","/","/","a">>
FolderB == <<"f","i","l","e",":","/","/","/","w","/","b">>

\* A color set an earlier session left behind.
PrevColors == generateTitleBarColorsFromHue(220, Dark)

UserColor == <<"#","1","2","3","4","5","6">>

InitialFolders ==
    {Undefined, [list |-> <<>>], [list |-> <<FolderA>>], [list |-> <<FolderB, FolderA>>]}

InitialThemes == {"Dark", "HighContrastLight"}

InitialConfigs ==
    {Undefined,
     [map |-> EmptyMap],
     [map |-> [EmptyMap EXCEPT !["statusBar.background"] = UserColor]],
     [map |-> MergeColors([EmptyMap EXCEPT !["editor.background"] = UserColor], PrevColors)],
     [map |-> MergeColors(EmptyMap, PrevColors)]}

NoPureCall == [fn |-> "none"]

Init ==
    /\ folders \in InitialFolders
    /\ themeKind \in InitialThemes
    /\ colorOnStartup \in BOOLEAN
    /\ config \in InitialConfigs
    /\ saved \in {Undefined, PrevColors}
    /\ actPc = "start"
    /\ startup = "none"
    /\ calls = [p \in Slots |-> IdleCall]
    /\ lastCall = None
    /\ pin = NoPureCall
    /\ pout = None
    /\ seen = <<>>

Next ==
    \/ Activate
    \/ \E p \in CommandSlots : Randomize(p)
    \/ \E p \in CommandSlots : PickHue(p)
    \/ \E p \in CommandSlots : Reset(p)
    \/ \E p \in Slots : ConfigUpdated(p)
    \/ \E p \in Slots : StateUpdated(p)

Spec == Init /\ [][Next]_vars

\* No call is in flight.
Quiescent == \A p \in Slots : calls[p].pc = "idle"

FirstCommand == StartupSlot + 1

\* The commands run one after another, each completing before the next
\* starts (and after the startup call has completed).
NextSeq ==
    \/ Activate
    \/ Quiescent /\ Randomize(FirstCommand)
    \/ Quiescent /\ PickHue(FirstCommand)
    \/ Quiescent /\ Reset(FirstCommand)
    \/ \E p \in Slots : ConfigUpdated(p)
    \/ \E p \in Slots : StateUpdated(p)

SpecSeq == Init /\ [][NextSeq]_vars

\* The host resolves every pending update.
Fairness == \A p \in Slots : WF_vars(ConfigUpdated(p)) /\ WF_vars(StateUpdated(p))

FairSeq == SpecSeq /\ Fairness

-----------------------------------------------------------------------------
(* The pure functions of color-generator.ts, called on inputs drawn from   *)
(* bounded sets: pin is the call and pout its result.                      *)

SeedAlphabet == <<"a", "b", "c", "B">>

Range(seq) == {seq[i] : i \in 1..Len(seq)}

\* The strings of length n over SeedAlphabet, in order.
RECURSIVE StringsOfLen(_)
StringsOfLen(n) ==
    IF n = 0 THEN << <<>> >>
    ELSE LET shorter == StringsOfLen(n - 1)
             width   == Len(SeedAlphabet)
         IN  [i \in 1..(Len(shorter) * width) |->
                 shorter[((i - 1) \div width) + 1]
                 \o <<SeedAlphabet[((i - 1) % width) + 1]>>]

RECURSIVE StringsUpTo(_)
StringsUpTo(n) == IF n = 0 THEN StringsOfLen(0) ELSE StringsUpTo(n - 1) \o StringsOfLen(n)

ShortSeeds == StringsUpTo(MaxSeedLen)

\* toString(10) of 0 .. 99
Decimal(i) == IF i < 10 THEN <<DecDigits[i + 1]>>
              ELSE <<DecDigits[(i \div 10) + 1], DecDigits[(i % 10) + 1]>>

\* `/Users/dev/project-${i}`
TestPath(i) ==
    <<"/","U","s","e","r","s","/","d","e","v","/","p","r","o","j","e","c","t","-">>
    \o Decimal(i)

\* The seeds of the loop `for (let i = 0; i < 20; i++)` of the test.
TestPaths == [i \in 1..20 |-> TestPath(i - 1)]

ProjectAlpha == <<"p","r","o","j","e","c","t","-","a","l","p","h","a">>
ProjectBeta == <<"p","r","o","j","e","c","t","-","b","e","t","a">>

SeedInputs ==
    Range(ShortSeeds) \cup Range(TestPaths) \cup {ProjectAlpha, ProjectBeta, FolderA, FolderB}

HueInputs == (0..359) \cup {-360, -60, -1, 360, 405, 719}

PureCalls ==
    [fn : {"generateTitleBarColors"}, theme : ThemeKind, random : RandomDraws]
    \cup [fn : {"generateTitleBarColorsFromHue"}, hue : HueInputs, theme : ThemeKind]
    \cup [fn : {"generateTitleBarColorsFromSeed"}, seed : SeedInputs, theme : ThemeKind]

\* The state of the extension while only the pure functions are called.
NoExtension ==
    /\ folders = Undefined
    /\ themeKind = "Dark"
    /\ colorOnStartup = FALSE
    /\ config = Undefined
    /\ saved = Undefined
    /\ actPc = "start"
    /\ startup = "none"
    /\ calls = [p \in Slots |-> IdleCall]
    /\ lastCall = None

PureInit ==
    /\ NoExtension
    /\ pin \in PureCalls
    /\ pout = None
    /\ seen = <<>>

\* What every call of the harness does around the function it calls.
Returned(result) ==
    /\ pout = None
    /\ pout' = [val |-> result]
    /\ UNCHANGED <<folders, themeKind, colorOnStartup, config, saved, actPc, startup,
                   calls, lastCall, pin, seen>>

CallGenerateTitleBarColors ==
    /\ pin.fn = "generateTitleBarColors"
    /\ Returned(generateTitleBarColors(pin.theme, pin.random))

CallGenerateTitleBarColorsFromHue ==
    /\ pin.fn = "generateTitleBarColorsFromHue"
    /\ Returned(generateTitleBarColorsFromHue(pin.hue, pin.theme))

CallGenerateTitleBarColorsFromSeed ==
    /\ pin.fn = "generateTitleBarColorsFromSeed"
    /\ Returned(generateTitleBarColorsFromSeed(pin.seed, pin.theme))

PureNext ==
    \/ CallGenerateTitleBarColors
    \/ CallGenerateTitleBarColorsFromHue
    \/ CallGenerateTitleBarColorsFromSeed

PureSpec == PureInit /\ [][PureNext]_vars

-----------------------------------------------------------------------------
(* The loop of the test "produces different colors for different seeds":   *)
(* the seeded generator is called on each seed of a list in turn, and seen *)
(* collects the results.                                                   *)

SeedLists == {TestPaths, <<ProjectAlpha, ProjectBeta>>, ShortSeeds}

SeedInit ==
    /\ NoExtension
    /\ pin \in [fn : {"seedLoop"}, seeds : SeedLists, theme : ThemeKind]
    /\ pout = None
    /\ seen = <<>>

SeedLoopStep ==
    /\ pin.fn = "seedLoop"
    /\ Len(seen) < Len(pin.seeds)
    /\ seen' = Append(seen, generateTitleBarColorsFromSeed(pin.seeds[Len(seen) + 1], pin.theme))
    /\ UNCHANGED <<folders, themeKind, colorOnStartup, config, saved, actPc, startup,
                   calls, lastCall, pin, pout>>

SeedSpec == SeedInit /\ [][SeedLoopStep]_vars

-----------------------------------------------------------------------------
(* The exported helpers of color-generator.ts, each called on its own next *)
(* to the three generators: pin is the call and pout its result; the call  *)
(* of rgbToHex is followed by hexToRgb on its result, kept in seen.        *)

\* Base colors within the documented range of HSL.
HslInputs ==
    [h : {0, 1, 30, 59, 60, 61, 119, 120, 180, 240, 299, 300, 359},
     s : {0, Pct(1), Pct(25), 33333333, Pct(50), Pct(99), Pct(100)},
     l : {0, Pct(1), Pct(3), Pct(12), Pct(50), 66666667, Pct(88), Pct(97), Pct(100)}]

\* Every whole hue of three turns, on a few colors.
TurnInputs ==
    [h : (0 - 360)..719,
     s : {0, Pct(40), Pct(100)},
     l : {Pct(22), Pct(50)}]

\* Colors inside and outside the documented range of HSL.
WideHslInputs ==
    [h : {0 - 420, 0 - 60, 0, 60, 120, 180, 240, 300, 405},
     s : {0 - Pct(50), 0, Pct(50), Pct(100), Pct(150), Pct(200)},
     l : {0 - Pct(20), 0, Pct(25), Pct(50), Pct(75), Pct(100), Pct(120)}]

\* One channel over its whole range next to two fixed ones.
RgbInputs ==
    LET fixed == {0, 18, 255}
    IN  [r : 0..255, g : fixed, b : fixed]
        \cup [r : fixed, g : 0..255, b : fixed]
        \cup [r : fixed, g : fixed, b : 0..255]

ForegroundInputs == {HexWhite, HexBlack, <<>>, <<"#","a","b","c">>}

\* Values of the parameter seed of hashStringToFloat.
SeedOffsets == {0 - 6000, 0 - 5382, 0 - 5381, 0 - 1, 0, 1, 2, 60155, 1000000}

UnitCalls ==
    [fn : {"titleBarColorsFromHsl"}, hsl : HslInputs, theme : ThemeKind]
    \cup [fn : {"hslToRgb"}, hsl : TurnInputs \cup WideHslInputs]
    \cup [fn : {"rgbToHex"}, rgb : RgbInputs, hash : BOOLEAN]
    \cup [fn : {"deriveInactiveForeground"}, activeForeground : ForegroundInputs]
    \cup [fn : {"hashStringToHue"}, input : SeedInputs]
    \cup [fn : {"hashStringToFloat"}, input : SeedInputs, seed : SeedOffsets]

UnitInit ==
    /\ NoExtension
    /\ pin \in PureCalls \cup UnitCalls
    /\ pout = None
    /\ seen = <<>>

CallTitleBarColorsFromHsl ==
    /\ pin.fn = "titleBarColorsFromHsl"
    /\ Returned(titleBarColorsFromHsl(pin.hsl, pin.theme))

CallHslToRgb ==
    /\ pin.fn = "hslToRgb"
    /\ Returned(hslToRgb(pin.hsl))

CallRgbToHex ==
    /\ pin.fn = "rgbToHex"
    /\ Returned(rgbToHex(pin.rgb))

\* hexToRgb on the string rgbToHex returned, with its "#" or without it.
CallHexToRgb ==
    /\ pin.fn = "rgbToHex"
    /\ pout # None
    /\ seen = <<>>
    /\ seen' = <<hexToRgb(IF pin.hash THEN pout.val ELSE Tail(pout.val))>>
    /\ UNCHANGED <<folders, themeKind, colorOnStartup, config, saved, actPc, startup,
                   calls, lastCall, pin, pout>>

CallDeriveInactiveForeground ==
    /\ pin.fn = "deriveInactiveForeground"
    /\ Returned(deriveInactiveForeground(pin.activeForeground))

CallHashStringToHue ==
    /\ pin.fn = "hashStringToHue"
    /\ Returned(hashStringToHue(pin.input))

CallHashStringToFloat ==
    /\ pin.fn = "hashStringToFloat"
    /\ Returned(hashStringToFloat(pin.input, pin.seed))

UnitNext ==
    \/ PureNext
    \/ CallTitleBarColorsFromHsl
    \/ CallHslToRgb
    \/ CallRgbToHex
    \/ CallHexToRgb
    \/ CallDeriveInactiveForeground
    \/ CallHashStringToHue
    \/ CallHashStringToFloat

UnitSpec == UnitInit /\ [][UnitNext]_vars

-----------------------------------------------------------------------------
(* One command that applies a color set followed by the reset command,     *)
(* with a workspace open and nothing else in between.  pin keeps the       *)
(* stored map the round trip started from.                                 *)

OpenFolders == {f \in InitialFolders : f # Undefined /\ Len(f.list) > 0}

RoundTripInit ==
    /\ folders \in OpenFolders
    /\ themeKind \in InitialThemes
    /\ colorOnStartup \in BOOLEAN
    /\ config \in InitialConfigs
    /\ saved \in {Undefined, PrevColors}
    /\ actPc = "done"
    /\ startup = "none"
    /\ calls = [p \in Slots |-> IdleCall]
    /\ lastCall = None
    /\ pin = [fn |-> "roundTrip", map |-> config]
    /\ pout = None
    /\ seen = <<>>

RoundTripNext ==
    \/ lastCall = None /\ Quiescent /\ Randomize(FirstCommand)
    \/ lastCall = None /\ Quiescent /\ PickHue(FirstCommand)
    \/ lastCall # None /\ lastCall.op = "apply" /\ Quiescent /\ Reset(FirstCommand)
    \/ ConfigUpdated(FirstCommand)
    \/ StateUpdated(FirstCommand)

RoundTripSpec == RoundTripInit /\ [][RoundTripNext]_vars

-----------------------------------------------------------------------------
(* The functions of color-generator.ts that return an HSL value, each      *)
(* called on its own: pin is the call and pout its result.  A base HSL     *)
(* that one of the three strategies returned is then handed to             *)
(* deriveInactiveHsl and deriveBorderHsl, as titleBarColorsFromHsl does;   *)
(* seen keeps the two derived values.                                      *)

\* The calls that return a base HSL.
BaseHslCalls == {"generateAppealingHsl", "hslFromHue", "seedHsl"}

HslCalls ==
    [fn : {"generateAppealingHsl"}, theme : ThemeKind, random : RandomDraws]
    \cup [fn : {"hslFromHue"}, hue : HueInputs, theme : ThemeKind]
    \cup [fn : {"seedHsl", "seedFloats"}, seed : SeedInputs, theme : ThemeKind]
    \cup [fn : {"deriveInactiveHsl", "deriveBorderHsl"}, hsl : HslInputs, theme : ThemeKind]

HslInit ==
    /\ NoExtension
    /\ pin \in HslCalls
    /\ pout = None
    /\ seen = <<>>

CallGenerateAppealingHsl ==
    /\ pin.fn = "generateAppealingHsl"
    /\ Returned(generateAppealingHsl(pin.theme, pin.random))

CallHslFromHue ==
    /\ pin.fn = "hslFromHue"
    /\ Returned(hslFromHue(pin.hue, pin.theme))

\* generateTitleBarColorsFromSeed up to its base HSL.
CallSeedHsl ==
    /\ pin.fn = "seedHsl"
    /\ Returned(SeedHsl(pin.seed, pin.theme))

\* The two floats generateTitleBarColorsFromSeed draws from its seed.
CallSeedFloats ==
    /\ pin.fn = "seedFloats"
    /\ Returned([sFloat |-> hashStringToFloat(pin.seed, 1),
                 lFloat |-> hashStringToFloat(pin.seed, 2)])

CallDeriveInactiveHsl ==
    /\ pin.fn = "deriveInactiveHsl"
    /\ Returned(deriveInactiveHsl(pin.hsl, pin.theme))

CallDeriveBorderHsl ==
    /\ pin.fn = "deriveBorderHsl"
    /\ Returned(deriveBorderHsl(pin.hsl, pin.theme))

\* The two derivations of titleBarColorsFromHsl on a returned base HSL.
DeriveFromBase ==
    /\ pin.fn \in BaseHslCalls
    /\ pout # None
    /\ seen = <<>>
    /\ \E theme \in ThemeKind :
          seen' = <<deriveInactiveHsl(pout.val, theme), deriveBorderHsl(pout.val, theme)>>
    /\ UNCHANGED <<folders, themeKind, colorOnStartup, config, saved, actPc, startup,
                   calls, lastCall, pin, pout>>

HslNext ==
    \/ CallGenerateAppealingHsl
    \/ CallHslFromHue
    \/ CallSeedHsl
    \/ CallSeedFloats
    \/ CallDeriveInactiveHsl
    \/ CallDeriveBorderHsl
    \/ DeriveFromBase

HslSpec == HslInit /\ [][HslNext]_vars

-----------------------------------------------------------------------------
(* Properties. *)

TitleKeysHold(colors) ==
    /\ config # Undefined
    /\ config.map["titleBar.activeBackground"] = colors.activeBackground
    /\ config.map["titleBar.activeForeground"] = colors.activeForeground
    /\ config.map["titleBar.inactiveBackground"] = colors.inactiveBackground
    /\ config.map["titleBar.inactiveForeground"] = colors.inactiveForeground
    /\ config.map["titleBar.border"] = colors.border

\* The configuration write of the call in slot p happens in this step.
ConfigWrite(p, op) ==
    /\ calls[p].pc = "configUpdate"
    /\ calls[p].op = op
    /\ calls'[p].pc = "stateUpdate"

\* C2: the map that applyColors(colors) writes, with a workspace open,
\* binds the five titleBar.* keys to the five values of colors, keeps every
\* other key of the previously stored map with its value, and adds no key.
C2_ApplyMergesColors ==
    [][\A p \in Slots :
          ConfigWrite(p, "apply") =>
              /\ TitleKeysHold(calls[p].colors)'
              /\ \A k \in AllKeys \ TitleKeys : config'.map[k] = CurrentMap[k]]_vars

\* An applyColors call has written its map, which keeps a key of the user.
C2_Witness ==
    \E p \in Slots :
        /\ calls[p].pc = "stateUpdate"
        /\ calls[p].op = "apply"
        /\ TitleKeysHold(calls[p].colors)
        /\ config.map["statusBar.background"] = UserColor

\* C3: the write of resetColors(), with a workspace open, removes exactly
\* the five titleBar.* keys and keeps every other key with its value; when
\* no key remains the setting is written as undefined, not as an empty map.
C3_ResetRemovesTitleKeys ==
    [][\A p \in Slots :
          ConfigWrite(p, "reset") =>
              LET rest == Keys(CurrentMap) \ TitleKeys
              IN  IF rest = {}
                  THEN config' = Undefined
                  ELSE /\ config' # Undefined
                       /\ Keys(config'.map) = rest
                       /\ \A k \in rest : config'.map[k] = CurrentMap[k]]_vars

\* A resetColors call has cleared the setting of a colored workspace.
C3_Witness ==
    \E p \in Slots :
        /\ calls[p].pc = "stateUpdate"
        /\ calls[p].op = "reset"
        /\ saved # Undefined
        /\ config = Undefined

\* C4: once the calls made one after another have returned, getSavedColors()
\* is the color set of the latest successful applyColors if no resetColors
\* followed it, and undefined after a resetColors that no successful
\* applyColors followed.
C4_SavedFollowsLastCall ==
    (Quiescent /\ lastCall # None) =>
        IF lastCall.op = "apply"
        THEN getSavedColors = lastCall.colors
        ELSE getSavedColors = Undefined /\ ~hasSavedColors

\* No workspace folder is open.
NoFolder == folders = Undefined \/ Len(folders.list) = 0

\* The color set seeded by the URI string of the first workspace folder.
FirstFolderColors == generateTitleBarColorsFromSeed(folders.list[1], getThemeKind)

\* activate() has run with a workspace open, colorOnStartup false and no
\* saved color set, and no call has returned since.
ActivatedUncolored ==
    /\ actPc = "done"
    /\ ~NoFolder
    /\ ~colorOnStartup
    /\ saved = Undefined
    /\ lastCall = None

\* C5: once activation has run with a workspace open, colorOnStartup false
\* and no saved color set, the seeded color set of the first folder is
\* eventually written to the five titleBar.* keys and stored as the saved
\* color set.
C5_StartupSeedsColors ==
    ActivatedUncolored
        ~> (~NoFolder /\ TitleKeysHold(FirstFolderColors) /\ saved = FirstFolderColors)

\* The startup logic has applied the seeded color set of the first of two
\* folders.
C5_Witness ==
    /\ startup = "seeded"
    /\ Len(folders.list) = 2
    /\ calls[StartupSlot].ret = "true"
    /\ TitleKeysHold(FirstFolderColors)
    /\ saved = FirstFolderColors

\* C6: activation with a workspace open, colorOnStartup false and a saved
\* color set writes nothing: it leaves the stored map and the saved color
\* set as they were and starts no call that could write later.
C6_StartupKeepsColors ==
    [][(actPc = "start" /\ ~NoFolder /\ ~colorOnStartup /\ saved # Undefined
            /\ actPc' = "done")
          => (config' = config /\ saved' = saved /\ calls' = calls)]_vars

\* Activation has found a saved color set and kept it.
C6_Witness ==
    /\ actPc = "done"
    /\ startup = "keep"
    /\ saved = PrevColors
    /\ calls[StartupSlot] = IdleCall

\* C7: without a workspace folder activate never invokes the seeded
\* generation and its startup logic starts no write of the stored map or
\* of the saved color set.
C7_NoSeedWithoutWorkspace ==
    NoFolder => (startup \in {"none", "noWorkspace"} /\ calls[StartupSlot] = IdleCall)

\* activate has run to its end with an empty list of folders.
C7_Witness ==
    /\ folders # Undefined
    /\ NoFolder
    /\ actPc = "done"
    /\ startup = "noWorkspace"

\* C8: applyColors called without a workspace folder returns false and
\* writes neither the stored map nor the saved color set.
C8_ApplyWithoutWorkspace ==
    [][\A p \in Slots :
          (NoFolder /\ calls'[p] # calls[p] /\ calls'[p].op = "apply")
              => /\ calls'[p].pc = "idle"
                 /\ calls'[p].ret = "false"
                 /\ config' = config
                 /\ saved' = saved]_vars

\* An applyColors call has returned false for lack of a workspace.
C8_Witness ==
    \E p \in Slots :
        /\ NoFolder
        /\ calls[p].op = "apply"
        /\ calls[p].pc = "idle"
        /\ calls[p].ret = "false"

\* The backgrounds the seed loop has collected.
SeenBackgrounds == {seen[i].activeBackground : i \in 1..Len(seen)}

-----------------------------------------------------------------------------
(* Properties of the exported helpers. *)

\* The calls that return a color set.
ColorSetCalls ==
    {"titleBarColorsFromHsl", "generateTitleBarColors",
     "generateTitleBarColorsFromHue", "generateTitleBarColorsFromSeed"}

\* C11: the activeForeground of every color set that titleBarColorsFromHsl
\* or one of the three generators returns is exactly "#ffffff" or exactly
\* "#000000".
C11_ForegroundWhiteOrBlack ==
    (pout # None /\ pin.fn \in ColorSetCalls)
        => pout.val.activeForeground \in {HexWhite, HexBlack}

\* titleBarColorsFromHsl has chosen black for a light base color.
C11_Witness ==
    /\ pin.fn = "titleBarColorsFromHsl"
    /\ pout # None
    /\ pin.hsl.l = Pct(88)
    /\ pout.val.activeForeground = HexBlack

\* str is "#" followed by exactly n lowercase hex digits.
IsHex(str, n) ==
    /\ Len(str) = n + 1
    /\ str[1] = "#"
    /\ \A i \in 2..(n + 1) : Has(HexDigits, str[i])

C14_HexPatterns ==
    (pout # None /\ pin.fn = "titleBarColorsFromHsl")
        => /\ IsHex(pout.val.activeBackground, 6)
           /\ IsHex(pout.val.activeForeground, 6)
           /\ IsHex(pout.val.inactiveBackground, 6)
           /\ IsHex(pout.val.border, 6)
           /\ (IsHex(pout.val.inactiveForeground, 6) \/ IsHex(pout.val.inactiveForeground, 8))

\* A color set whose border has channels below 16, which need the padding.
C14_Witness ==
    /\ pin.fn = "titleBarColorsFromHsl"
    /\ pout # None
    /\ pin.hsl.l = Pct(3)
    /\ pin.hsl.s = Pct(50)
    /\ pout.val.border = HexBlack
    /\ pout.val.activeBackground # HexBlack

\* The three channels of rgb are integers of [0, 255].
InByteRange(rgb) == rgb.r \in 0..255 /\ rgb.g \in 0..255 /\ rgb.b \in 0..255

\* C15 as claimed: for every HSL, also with s or l outside [0, 100],
\* hslToRgb returns three integers of [0, 255].
C15_ChannelsInRange ==
    (pout # None /\ pin.fn = "hslToRgb") => InByteRange(pout.val)

\* C15 as amended: for every HSL with s and l in [0, 100], also with h
\* outside [0, 360), hslToRgb returns three integers of [0, 255].
C15_ChannelsInRangeForPercents ==
    (pout # None /\ pin.fn = "hslToRgb"
         /\ pin.hsl.s \in 0..Pct(100) /\ pin.hsl.l \in 0..Pct(100))
        => InByteRange(pout.val)

\* hslToRgb has returned full red for a hue beyond the circle.
C15_Witness ==
    /\ pin.fn = "hslToRgb"
    /\ pout # None
    /\ pin.hsl = [h |-> 360, s |-> Pct(100), l |-> Pct(50)]
    /\ pout.val.r = 255

\* C16: hslToRgb of any hue, negative or beyond 360, is hslToRgb of that
\* hue reduced modulo 360 into [0, 360), s and l being equal.
C16_HueModulo360 ==
    (pout # None /\ pin.fn = "hslToRgb")
        => pout.val = hslToRgb([h |-> pin.hsl.h % 360, s |-> pin.hsl.s, l |-> pin.hsl.l])

\* hslToRgb has returned magenta for the hue -60.
C16_Witness ==
    /\ pin.fn = "hslToRgb"
    /\ pout # None
    /\ pin.hsl = [h |-> 0 - 60, s |-> Pct(100), l |-> Pct(50)]
    /\ pout.val = [r |-> 255, g |-> 0, b |-> 255]

\* The reference points of the standard formula, each channel rounded to
\* the nearest integer.
ReferencePoints ==
    {<<0, 100, 50, 255, 0, 0>>, <<60, 100, 50, 255, 255, 0>>,
     <<120, 100, 50, 0, 255, 0>>, <<180, 100, 50, 0, 255, 255>>,
     <<240, 100, 50, 0, 0, 255>>, <<300, 100, 50, 255, 0, 255>>,
     <<0, 0, 0, 0, 0, 0>>, <<0, 0, 100, 255, 255, 255>>,
     <<0, 0, 50, 128, 128, 128>>}

\* C17: on the nine reference points hslToRgb returns the value of the
\* standard formula rounded to the nearest integer, a half rounding up.
C17_ReferencePoints ==
    (pout # None /\ pin.fn = "hslToRgb")
        => \A p \in ReferencePoints :
               pin.hsl = [h |-> p[1], s |-> Pct(p[2]), l |-> Pct(p[3])]
                   => pout.val = [r |-> p[4], g |-> p[5], b |-> p[6]]

\* hslToRgb has returned the grey whose exact value 127.5 rounds up.
C17_Witness ==
    /\ pin.fn = "hslToRgb"
    /\ pout # None
    /\ pin.hsl = [h |-> 0, s |-> 0, l |-> Pct(50)]
    /\ pout.val = [r |-> 128, g |-> 128, b |-> 128]

\* The two hex digits of a channel n of [0, 255].
TwoDigits(n) == <<HexDigits[(n \div 16) + 1], HexDigits[(n % 16) + 1]>>

\* C18: for integer channels of [0, 255], rgbToHex returns "#" followed by
\* two zero-padded lowercase hex digits per channel, and hexToRgb of that
\* string, with or without its "#", returns the original RGB.
C18_HexRoundTrip ==
    pin.fn = "rgbToHex" =>
        /\ pout # None
               => pout.val = <<"#">> \o TwoDigits(pin.rgb.r) \o TwoDigits(pin.rgb.g)
                                     \o TwoDigits(pin.rgb.b)
        /\ seen # <<>> => seen[1] = pin.rgb

\* hexToRgb has read back, without the "#", a color with a padded channel.
C18_Witness ==
    /\ pin.fn = "rgbToHex"
    /\ ~pin.hash
    /\ pin.rgb = [r |-> 10, g |-> 255, b |-> 18]
    /\ seen = <<pin.rgb>>

\* (33 * hash + code) mod 2^32 on halves.
MulAdd33(hash, code) ==
    LET lo == 33 * hash.lo + code
    IN  [hi |-> (33 * hash.hi + (lo \div 65536)) % 65536, lo |-> lo % 65536]

\* H_n of the recurrence H_0 = 5381, H_(i+1) = (33 * H_i + code_i) mod 2^32.
RECURSIVE Djb2(_, _)
Djb2(input, n) ==
    IF n = 0 THEN [hi |-> 0, lo |-> 5381]
    ELSE MulAdd33(Djb2(input, n - 1), charCode(input[n]))

\* h mod 360 for h = hi * 65536 + lo.
Mod360(hash) == ((hash.hi % 360) * 16 + hash.lo) % 360

\* C19: hashStringToHue returns H_n mod 360 for H_0 = 5381 and
\* H_(i+1) = (33 * H_i + code_i) mod 2^32, an integer of [0, 360), and
\* 341 for the empty string.
C19_HueIsDjb2Mod360 ==
    (pout # None /\ pin.fn = "hashStringToHue")
        => /\ pout.val = Mod360(Djb2(pin.input, Len(pin.input)))
           /\ pout.val \in 0..359
           /\ pin.input = <<>> => pout.val = 341

\* hashStringToHue has returned for a seed whose hash wrapped around 2^32.
C19_Witness ==
    /\ pin.fn = "hashStringToHue"
    /\ pin.input = TestPath(19)
    /\ pout # None
    /\ pout.val \in 0..359

\* C20: for every input string, also the empty one, and every integer
\* seedOffset, hashStringToFloat returns v with 0 <= v < 1 (v in
\* ten-thousandths here).
C20_FloatInUnitInterval ==
    (pout # None /\ pin.fn = "hashStringToFloat") => pout.val \in 0..9999

\* An HSL value as types.ts documents it: hue in [0, 360), saturation and
\* lightness in [0, 100].
InRange(hsl) ==
    /\ hsl.h \in 0..359
    /\ hsl.s \in 0..Pct(100)
    /\ hsl.l \in 0..Pct(100)

ThemeRanges(theme) ==
    CASE theme = Light -> [sMin |-> 25, sMax |-> 85, lMin |-> 65, lMax |-> 90]
      [] theme = HighContrast -> [sMin |-> 40, sMax |-> 90, lMin |-> 10, lMax |-> 28]
      [] OTHER -> [sMin |-> 20, sMax |-> 85, lMin |-> 12, lMax |-> 40]

\* C22: the base HSL of the seeded generator is h = hashStringToHue(seed),
\* s = sMin + hashStringToFloat(seed, 1) * (sMax - sMin) and
\* l = lMin + hashStringToFloat(seed, 2) * (lMax - lMin) with the ranges of
\* the theme: Dark s [20, 85] l [12, 40], Light s [25, 85] l [65, 90],
\* HighContrast s [40, 90] l [10, 28].
C22_SeededBaseHsl ==
    (pout # None /\ pin.fn = "seedHsl")
        => LET r == ThemeRanges(pin.theme)
           IN  /\ pout.val.h = hashStringToHue(pin.seed)
               /\ pout.val.s = Pct(r.sMin)
                     + hashStringToFloat(pin.seed, 1) * (r.sMax - r.sMin) * 100
               /\ pout.val.l = Pct(r.lMin)
                     + hashStringToFloat(pin.seed, 2) * (r.lMax - r.lMin) * 100
               /\ pout.val.s \in Pct(r.sMin)..Pct(r.sMax)
               /\ pout.val.l \in Pct(r.lMin)..Pct(r.lMax)

\* The seeded base HSL of a workspace path is returned under the Light
\* theme, inside the Light ranges and outside the Dark lightness range.
C22_Witness ==
    /\ pin.fn = "seedHsl"
    /\ pin.theme = Light
    /\ pin.seed = FolderA
    /\ pout # None
    /\ pout.val.l \in Pct(65)..Pct(90)

\* C23 as stated: the s and l of hslFromHue lie inside the ranges of the
\* theme table for every theme.
C23_HueInsideTable ==
    (pout # None /\ pin.fn = "hslFromHue")
        => LET r == ThemeRanges(pin.theme)
           IN  /\ pout.val.s \in Pct(r.sMin)..Pct(r.sMax)
               /\ pout.val.l \in Pct(r.lMin)..Pct(r.lMax)

\* C23: the s and l of hslFromHue lie inside the ranges of the theme table
\* for the Dark and HighContrast themes; for the Light theme s lies in
\* [15, 55] and l in [64, 80], which reach below the table's [25, 85] and
\* [65, 90].
C23_HueRanges ==
    (pout # None /\ pin.fn = "hslFromHue")
        => LET r == ThemeRanges(pin.theme)
           IN  IF pin.theme = Light
               THEN /\ pout.val.s \in Pct(15)..Pct(55)
                    /\ pout.val.l \in Pct(64)..Pct(80)
               ELSE /\ pout.val.s \in Pct(r.sMin)..Pct(r.sMax)
                    /\ pout.val.l \in Pct(r.lMin)..Pct(r.lMax)

\* hslFromHue has returned its lowest Light values, s = 15 and l = 64, at
\* hue 270.
C23_Witness ==
    /\ pin.fn = "hslFromHue"
    /\ pin.theme = Light
    /\ pin.hue = 270
    /\ pout # None
    /\ pout.val.s = Pct(15)
    /\ pout.val.l = Pct(64)

\* C24: hashStringToFloat(s, 1) and hashStringToFloat(s, 2) differ for
\* every string s.
C24_OffsetsDiffer ==
    (pout # None /\ pin.fn = "seedFloats") => pout.val.sFloat # pout.val.lFloat

\* Both floats of a path whose hash wrapped around 2^32 are drawn.
C24_Witness ==
    /\ pin.fn = "seedFloats"
    /\ pin.seed = TestPath(19)
    /\ pout # None
    /\ pout.val.sFloat \in 0..9999
    /\ pout.val.lFloat \in 0..9999

\* The lightness deriveBorderHsl takes off before it clamps.
BorderOffset(theme) == IF theme = Light THEN Pct(12) ELSE Pct(6)

\* C25 as stated: deriveBorderHsl keeps the hue and returns a lightness
\* strictly below the active one for every active HSL with s and l in
\* [0, 100], 12 lower for Light and 6 lower for Dark and HighContrast
\* before clamping.
C25_BorderStrictlyDarker ==
    (pout # None /\ pin.fn = "deriveBorderHsl")
        => /\ pout.val.h = pin.hsl.h
           /\ pout.val.l = clamp(pin.hsl.l - BorderOffset(pin.theme), 0, Pct(100))
           /\ pout.val.l < pin.hsl.l

\* C25: deriveBorderHsl keeps the hue and takes 12 (Light) or 6 (Dark,
\* HighContrast) off the lightness before clamping; the border lightness is
\* strictly below the active one for every active l in (0, 100], and 0,
\* equal to it, for l = 0.
C25_BorderDarker ==
    (pout # None /\ pin.fn = "deriveBorderHsl")
        => /\ pout.val.h = pin.hsl.h
           /\ pout.val.l = clamp(pin.hsl.l - BorderOffset(pin.theme), 0, Pct(100))
           /\ pin.hsl.l > 0 => pout.val.l < pin.hsl.l
           /\ pin.hsl.l = 0 => pout.val.l = 0

\* A border is derived from an active lightness the offset takes below 0.
C25_Witness ==
    /\ pin.fn = "deriveBorderHsl"
    /\ pin.theme = Light
    /\ pin.hsl.l = Pct(3)
    /\ pout # None
    /\ pout.val.l = 0

\* C26 as stated: deriveInactiveHsl keeps the hue and returns a saturation
\* strictly below the active one for every active HSL with s and l in
\* [0, 100].
C26_InactiveStrictlyDuller ==
    (pout # None /\ pin.fn = "deriveInactiveHsl")
        => /\ pout.val.h = pin.hsl.h
           /\ pout.val.s < pin.hsl.s

\* C26: deriveInactiveHsl keeps the hue; the inactive saturation is
\* strictly below the active one for every active s of at least one
\* millionth, and 0, equal to it, for s = 0.
C26_InactiveDuller ==
    (pout # None /\ pin.fn = "deriveInactiveHsl")
        => /\ pout.val.h = pin.hsl.h
           /\ pin.hsl.s > 0 => pout.val.s < pin.hsl.s
           /\ pin.hsl.s = 0 => pout.val.s = 0

\* An inactive color is derived from a fully saturated one.
C26_Witness ==
    /\ pin.fn = "deriveInactiveHsl"
    /\ pin.hsl.s = Pct(100)
    /\ pout # None
    /\ pout.val.s = Pct(65)

\* None of the five titleBar.* keys is present in the stored map.
NoTitleKeys == \A k \in TitleKeys : CurrentMap[k] = Absent

\* The saved color set agrees with the stored map: the five titleBar.*
\* keys hold the values of the saved set, or, with no saved set, are absent.
SavedAgreesWithMap ==
    IF saved = Undefined THEN NoTitleKeys ELSE TitleKeysHold(saved)

\* C27 as stated: with a workspace open and the calls run one after
\* another from a state with no saved color set, at every point where no
\* call is in flight the saved color set agrees with the stored map.
C27_SequentialAgreement ==
    (Quiescent /\ ~NoFolder /\ (lastCall = None => saved = Undefined))
        => SavedAgreesWithMap

\* C27: with a workspace open and the calls run one after another from a
\* state with no saved color set and none of the five titleBar.* keys in
\* the stored map, at every point where no call is in flight the saved
\* color set agrees with the stored map.
C27_SequentialAgreementFromCleanMap ==
    (Quiescent /\ ~NoFolder
        /\ (lastCall = None => (saved = Undefined /\ NoTitleKeys)))
        => SavedAgreesWithMap

\* A command's applyColors has returned after the startup call, and the
\* stored map holds the set it saved.
C27_Witness ==
    /\ Quiescent
    /\ ~NoFolder
    /\ calls[FirstCommand].cmd = "pickHue"
    /\ lastCall # None
    /\ lastCall.op = "apply"
    /\ saved # Undefined
    /\ saved # PrevColors
    /\ TitleKeysHold(saved)

\* C28: when applyColors and resetColors calls overlap, interleaving at
\* their await points, then once every call has completed a saved color
\* set exists if and only if the five titleBar.* keys are present, and the
\* keys hold the values of that set.
C28_OverlapAgreement ==
    (Quiescent /\ ~NoFolder /\ lastCall # None)
        => /\ saved # Undefined <=> (\A k \in TitleKeys : CurrentMap[k] # Absent)
           /\ saved # Undefined => TitleKeysHold(saved)

MapOf(value) == IF value = Undefined THEN EmptyMap ELSE value.map

\* applyColors and then resetColors have returned, one after the other.
RoundTripDone ==
    /\ pin.fn = "roundTrip"
    /\ Quiescent
    /\ lastCall # None
    /\ lastCall.op = "reset"

\* C29 as stated: for every initial stored map m, an empty map counting
\* as an absent one, a successful applyColors(c) followed by resetColors()
\* leaves the stored map equal to m and no saved color set.
C29_RoundTrip ==
    RoundTripDone => (MapOf(config) = MapOf(pin.map) /\ saved = Undefined)

\* C29: for every initial stored map m that has none of the five
\* titleBar.* keys, an empty map counting as an absent one, a successful
\* applyColors(c) followed by resetColors() leaves the stored map equal to
\* m and no saved color set.
C29_RoundTripWithoutTitleKeys ==
    (RoundTripDone /\ (\A k \in TitleKeys : MapOf(pin.map)[k] = Absent))
        => (MapOf(config) = MapOf(pin.map) /\ saved = Undefined)

\* The round trip has ended on a map that holds a key of the user and had
\* no titleBar.* key, with a color set saved before it.
C29_Witness ==
    /\ RoundTripDone
    /\ pin.map # Undefined
    /\ pin.map.map["statusBar.background"] = UserColor
    /\ pin.map.map["titleBar.border"] = Absent
    /\ config = pin.map
    /\ saved = Undefined

====
